---- MODULE Spec2Model ----
(***************************************************************************)
(* Kong Manager UI suite: the two serial scenarios (create a Service,      *)
(* create a Route), the beforeEach hook, the helpers fillFormField,        *)
(* createService and createRoute, and the runner configuration, in the     *)
(* three variants the repository holds:                                    *)
(*   "scan"   src/tests/service-creation.spec.ts lines 1-235               *)
(*   "basic"  src/tests/service-creation.spec.ts lines 236-352             *)
(*   "helper" src/unnamed/part_000                                         *)
(* The admin UI and its backing store are the environment: every outcome   *)
(* of a navigation, a visibility probe, a click or a save that the browser *)
(* can report is a nondeterministic choice.                                *)
(***************************************************************************)
EXTENDS Naturals, Sequences, FiniteSets

\* ------------------------------------------------------------- bounds
\* Resources of one name the backing store holds at most.
MaxRes == 2
\* Inputs of a form in the exhaustive form-fill specification.
MaxInputs == 3
\* Workers of a local run (workers: undefined, the runner's default).
LocalWorkers == 2

\* ------------------------------------------------------ configuration
Variants == {"scan", "basic", "helper"}
Tests == {"A", "B"}
\* Declaration order inside the describe group.
Order == <<"A", "B">>

\* retries: process.env.CI ? 2 : 0
CIRetries == 2
LocalRetries == 0
RetriesAlways(c) == CIRetries
Retries(c) == IF c THEN CIRetries ELSE LocalRetries
\* workers: process.env.CI ? 1 : undefined
Workers(c) == IF c THEN 1 ELSE LocalWorkers

\* test.describe.serial(...): the group is declared serial in every variant.
DescribeSerial(v) == TRUE

\* ----------------------------------------------------- page elements
\* An <input>: what it means to the backend (field), the attributes the
\* locators read, its visibility and its current value.
Input(f, n, p, t, l, vis) ==
    [field |-> f, name |-> n, placeholder |-> p, testid |-> t, label |-> l,
     visible |-> vis, value |-> ""]

\* Case-insensitive substring table over the attribute values in use.
Contains ==
    { <<"name", "name">>, <<"hostname", "name">>, <<"Enter a unique name", "name">>,
      <<"Name", "Name">>, <<"Name", "name">>,
      <<"url", "url">>, <<"paths", "path">>, <<"Path", "path">>,
      <<"Filter by name", "name">>, <<"protocols", "protocol">>,
      <<"pathname", "path">>, <<"pathname", "name">> }

\* One simple selector: attribute `attr` contains `sub` (exact: equals it).
Sel(a, s, e) == [attr |-> a, sub |-> s, exact |-> e]

MatchesOne(inp, s) ==
    IF s.exact THEN inp[s.attr] = s.sub ELSE <<inp[s.attr], s.sub>> \in Contains

\* A locator is a comma list of simple selectors.
Matches(inp, sel) == \E s \in sel : MatchesOne(inp, s)

\* locator(sel).first(): index of the first match in document order, 0 if none.
First(form, sel) ==
    IF \E i \in 1..Len(form) : Matches(form[i], sel)
    THEN CHOOSE i \in 1..Len(form) :
            /\ Matches(form[i], sel)
            /\ \A j \in 1..(i - 1) : ~Matches(form[j], sel)
    ELSE 0

\* A fill that skips the visibility probe.
fillAlways(form, sel, v) ==
    LET i == First(form, sel)
    IN  IF i # 0 THEN [form EXCEPT ![i].value = v] ELSE form

\* fillFormField(page, selector, value)
fillFormField(form, sel, v) ==
    LET i == First(form, sel)
    IN  IF i # 0 /\ form[i].visible THEN [form EXCEPT ![i].value = v] ELSE form

NameAttrSel == {Sel("name", "name", FALSE)}
UrlAttrSel == {Sel("name", "url", FALSE)}
NamePhSel == {Sel("placeholder", "name", FALSE)}
PathPhSel == {Sel("placeholder", "path", FALSE)}
ProtoAttrSel == {Sel("name", "protocol", FALSE)}
\* 'input[placeholder*="name" i], input[name*="name" i], label:has-text("Name") ~ input'
NameFallbackSel ==
    {Sel("placeholder", "name", FALSE), Sel("name", "name", FALSE), Sel("label", "Name", FALSE)}
\* 'input[placeholder*="path" i], input[name*="path" i]'
PathFallbackSel == {Sel("placeholder", "path", FALSE), Sel("name", "path", FALSE)}
TidName == {Sel("testid", "route-form-name", TRUE)}
TidPath == {Sel("testid", "route-form-paths-input-1", TRUE)}

\* The value the backend reads for a field: that of the first input carrying it.
FieldValue(form, f) ==
    IF \E i \in 1..Len(form) : form[i].field = f
    THEN form[CHOOSE i \in 1..Len(form) :
                /\ form[i].field = f
                /\ \A j \in 1..(i - 1) : form[j].field # f].value
    ELSE ""

\* ------------------------------------------------- the heuristic scan
\* for (let i = 0; i < count; i++) { ... } over page.locator('input[type="text"]')
RECURSIVE ScanFrom(_, _, _, _)
ScanFrom(form, i, namedFilled, pathFilled) ==
    IF i > Len(form)
    THEN [form |-> form, namedFilled |-> namedFilled, pathFilled |-> pathFilled]
    ELSE LET inp == form[i]
             unlabeled == inp.placeholder = "" /\ inp.name = ""
             pathLike == <<inp.placeholder, "path">> \in Contains
                         \/ <<inp.name, "path">> \in Contains
         IN  IF inp.visible /\ ~namedFilled /\ unlabeled
             THEN ScanFrom([form EXCEPT ![i].value = "test-route"], i + 1, TRUE, pathFilled)
             ELSE IF inp.visible /\ ~pathFilled /\ pathLike
             THEN ScanFrom([form EXCEPT ![i].value = "/test-path"], i + 1, namedFilled, TRUE)
             ELSE ScanFrom(form, i + 1, namedFilled, pathFilled)

\* A fallback that runs whatever the scan did.
FallbackAlways(filled) == TRUE
\* if (!namedFilled) { ... }   if (!pathFilled) { ... }
FallbackNeeded(filled) == ~filled

\* Where locator(sel).first() is written by a guarded fill: the first match
\* when it is visible, nowhere otherwise.
WriteAt(form, sel) ==
    LET i == First(form, sel)
    IN  IF i # 0 /\ form[i].visible THEN {i} ELSE {}

\* The scan, then the two attribute-substring fallbacks (each only when the
\* scan did not fill its field; each inside try/catch, so nothing is raised),
\* with what every layer did: scanned is the form after the loop, nameAt and
\* pathAt are the inputs each value was written to.
PopulateScanTrace(form) ==
    LET s == ScanFrom(form, 1, FALSE, FALSE)
        nameFallback == FallbackNeeded(s.namedFilled)
        f1 == IF nameFallback
              THEN fillFormField(s.form, NameFallbackSel, "test-route")
              ELSE s.form
        pathFallback == FallbackNeeded(s.pathFilled)
        f2 == IF pathFallback
              THEN fillFormField(f1, PathFallbackSel, "/test-path")
              ELSE f1
    IN  [form |-> f2, scanned |-> s.form,
         namedFilled |-> s.namedFilled, pathFilled |-> s.pathFilled,
         nameFallback |-> nameFallback, pathFallback |-> pathFallback,
         nameAt |-> { i \in 1..Len(form) : s.form[i].value = "test-route" }
                    \cup (IF nameFallback THEN WriteAt(s.form, NameFallbackSel) ELSE {}),
         pathAt |-> { i \in 1..Len(form) : s.form[i].value = "/test-path" }
                    \cup (IF pathFallback THEN WriteAt(f1, PathFallbackSel) ELSE {}),
         raised |-> FALSE]

PopulateScan(form) == PopulateScanTrace(form).form

\* The basic variant: three fillFormField calls.
PopulateBasic(form) ==
    fillFormField(
        fillFormField(
            fillFormField(form, NamePhSel, "test-route"),
            ProtoAttrSel, "http"),
        PathPhSel, "/test-path")

\* ------------------------------------------------------ page catalogue
sName(v) == Input("name", "name", "", "gateway-service-name-input", "Name", v)
sUrl(v) == Input("url", "url", "", "gateway-service-url-input", "", v)
sHost(v) == Input("host", "hostname", "", "gateway-service-host-input", "", v)
rNameBare(v) == Input("name", "", "", "route-form-name", "Name", v)
rNameAttr(v) == Input("name", "name", "Enter a unique name", "route-form-name", "", v)
rPath(v) == Input("path", "paths", "", "route-form-paths-input-1", "", v)
rPathPh(v) == Input("path", "", "Path", "route-form-paths-input-1", "", v)
rProto(v) == Input("protocol", "protocols", "", "route-form-protocols", "", v)
rTags(v) == Input("tags", "", "", "route-form-tags", "", v)
rPathname(v) == Input("path", "pathname", "", "", "", v)
lFilter(v) == Input("filter", "", "Filter by name", "", "", v)

\* Layouts the service-creation view may render.
ServicePages ==
    { <<sName(TRUE), sUrl(TRUE)>>, <<sName(FALSE), sUrl(TRUE)>>, <<sName(TRUE)>>,
      <<sHost(TRUE), sName(TRUE), sUrl(TRUE)>>, <<>> }
\* Layouts the route-creation view may render.
RoutePages ==
    { <<rNameBare(TRUE), rPath(TRUE)>>, <<rNameAttr(TRUE), rPathPh(TRUE)>>,
      <<rTags(TRUE), rNameAttr(TRUE), rPath(TRUE)>>, <<rNameBare(FALSE), rPath(TRUE)>>,
      <<rNameAttr(TRUE), rProto(TRUE), rPathPh(TRUE)>>, <<rNameAttr(TRUE)>>, <<>> }
\* Text inputs of a list or detail view (a filter box, or none).
ListPages == { <<>>, <<lFilter(TRUE)>> }

\* --------------------------------------------------------------- state
VARIABLES
    variant,        \* which variant of the suite is run
    fullyParallel,  \* defineConfig: fullyParallel
    ci,             \* process.env.CI
    services,       \* backend: resources named 'test-service'
    routes,         \* backend: resources named 'test-route'
    attempt,        \* the group's retry index, 0 first
    results,        \* per scenario: the results reported for it over the attempts
    runDone,        \* the runner has exited
    runResult,      \* "passed" (exit 0) or "failed" (non-zero)
    ts,             \* per scenario: position, page and locals of this attempt
    fillIn,         \* form-fill specification: the form before the call
    fillSel,        \* form-fill specification: the locator
    fillOut,        \* form-fill specification: the form after the call
    fillPc,         \* form-fill specification: "off", "ready", "called";
                    \* population specification: "popReady", "populated"
    pop             \* population specification: what the population step did

vars == <<variant, fullyParallel, ci, services, routes, attempt, results, runDone,
          runResult, ts, fillIn, fillSel, fillOut, fillPc, pop>>
config == <<variant, fullyParallel, ci>>
fillVars == <<fillIn, fillSel, fillOut, fillPc, pop>>

\* A scenario before it starts: a fresh page and unset locals.
Fresh ==
    [pc |-> "idle", status |-> "pending", view |-> "blank", form |-> <<>>,
     modal |-> FALSE, hook |-> "none", okSeen |-> FALSE, okClicked |-> FALSE,
     body |-> FALSE, routesNavSuccess |-> FALSE, submitted |-> FALSE,
     saveClicks |-> 0, roleProbe |-> "none", secondTried |-> FALSE,
     proto |-> FALSE, bound |-> FALSE, picked |-> FALSE, cs |-> <<>>]

\* Backend resources of one name: those with every attribute as requested
\* (exact) and those with some attribute different (other).
NoRes == [exact |-> 0, other |-> 0]
Count(r) == r.exact + r.other
\* What an earlier run may have left behind: nothing, or one resource.
Leftovers == { NoRes, [exact |-> 1, other |-> 0] }

Init ==
    /\ variant \in Variants
    /\ fullyParallel \in BOOLEAN
    /\ ci \in BOOLEAN
    /\ services \in Leftovers
    /\ routes \in Leftovers
    /\ attempt = 0
    /\ results = [t \in Tests |-> {}]
    /\ runDone = FALSE
    /\ runResult = "none"
    /\ ts = [t \in Tests |-> Fresh]
    /\ fillIn = <<>> /\ fillSel = {} /\ fillOut = <<>> /\ fillPc = "off"
    /\ pop = <<>>

\* ----------------------------------------------------- step plumbing
\* The scenario moves on with its record replaced by r.
Step(t, r) ==
    /\ ts' = [ts EXCEPT ![t] = r]
    /\ UNCHANGED <<config, attempt, results, runDone, runResult, fillVars>>

\* The page once nothing reads its form any more (the next step navigates
\* away or the scenario is over): the form and its selections are dropped.
Closed(r) == [r EXCEPT !.form = <<>>, !.proto = FALSE, !.bound = FALSE]

\* The scenario ends this attempt with status st.
End(t, r, st) ==
    /\ ts' = [ts EXCEPT ![t] = [Closed(r) EXCEPT !.status = st, !.pc = "done"]]
    /\ results' = [results EXCEPT ![t] = @ \cup {st}]
    /\ UNCHANGED <<config, attempt, runDone, runResult, fillVars>>

Running(t) == ~runDone /\ ts[t].status = "running"
At(t, where) == Running(t) /\ ts[t].pc = where
Backend == <<services, routes>>

\* ------------------------------------------------------------- runner
Index(t) == CHOOSE i \in 1..Len(Order) : Order[i] = t
Earlier(t) == { u \in Tests : Index(u) < Index(t) }
NoneRunning == \A u \in Tests : ts[u].status # "running"

\* When the runner may start scenario t. A serial group runs in one worker,
\* in declaration order, and stops at the first failure, whatever fullyParallel
\* and the worker count say; a plain group is spread over the workers when
\* fullyParallel is set, and otherwise runs in order, failures or not.
CanStart(t) ==
    /\ ts[t].status = "pending"
    /\ IF DescribeSerial(variant)
       THEN /\ NoneRunning
            /\ \A u \in Earlier(t) : ts[u].status \in {"passed", "skipped"}
       ELSE IF fullyParallel
       THEN Cardinality({ u \in Tests : ts[u].status = "running" }) < Workers(ci)
       ELSE /\ NoneRunning
            /\ \A u \in Earlier(t) : ts[u].status # "pending"

StartTest(t) ==
    /\ ~runDone
    /\ CanStart(t)
    /\ Step(t, [Fresh EXCEPT !.status = "running", !.pc = "hook_goto"])
    /\ UNCHANGED Backend

SomeFailed == \E u \in Tests : ts[u].status = "failed"
Idle == NoneRunning /\ ~\E u \in Tests : CanStart(u)

\* All tests of a serial group are retried together, with fresh pages.
RetryGroup ==
    /\ ~runDone /\ Idle /\ SomeFailed
    /\ attempt < Retries(ci)
    /\ attempt' = attempt + 1
    /\ ts' = [t \in Tests |-> Fresh]
    /\ UNCHANGED <<config, results, runDone, runResult, fillVars, Backend>>

\* What the report may say of a scenario with results rs: failed in every
\* attempt it has a result for is unexpected; never failed is expected; failed
\* and later passed is flaky; failed and otherwise only skipped is either.
Outcomes(rs) ==
    LET failed == "failed" \in rs
        passed == "passed" \in rs
        skipped == "skipped" \in rs
    IN  IF ~failed THEN {"expected"}
        ELSE IF passed THEN {"flaky"}
        ELSE IF skipped THEN {"flaky", "unexpected"}
        ELSE {"unexpected"}

\* The run ends: scenarios that never ran are reported skipped, and the exit
\* status is non-zero exactly when some scenario's outcome is unexpected.
FinishRun ==
    /\ ~runDone /\ Idle
    /\ ~(SomeFailed /\ attempt < Retries(ci))
    /\ LET final == [t \in Tests |->
                        IF ts[t].status = "pending" THEN results[t] \cup {"skipped"}
                        ELSE results[t]]
       IN  /\ results' = final
           /\ \E o \in [Tests -> {"expected", "flaky", "unexpected"}] :
                /\ \A t \in Tests : o[t] \in Outcomes(final[t])
                /\ runResult' = IF \E t \in Tests : o[t] = "unexpected"
                                THEN "failed" ELSE "passed"
    /\ runDone' = TRUE
    /\ ts' = [t \in Tests |->
                IF ts[t].status = "pending" THEN [ts[t] EXCEPT !.status = "notrun"]
                ELSE ts[t]]
    /\ UNCHANGED <<config, attempt, fillVars, Backend>>

\* --------------------------------------------------- test.beforeEach
\* catch (e) { test.skip(true, '...'); return; }
OnUnreachableFallThrough(t) ==
    /\ Step(t, [ts[t] EXCEPT !.hook = "unreachable", !.pc = "hook_modal"])
    /\ UNCHANGED Backend
OnUnreachable(t) ==
    /\ End(t, [ts[t] EXCEPT !.hook = "unreachable"], "skipped")
    /\ UNCHANGED Backend

\* await page.goto('/', ...): the root page loads, with or without the
\* license modal, or the navigation raises.
HookGoto(t) ==
    /\ At(t, "hook_goto")
    /\ \/ \E m \in BOOLEAN :
            /\ Step(t, [ts[t] EXCEPT
                    !.view = "root", !.modal = m,
                    !.pc = IF variant = "basic" THEN "hook_modal" ELSE "hook_wait",
                    !.hook = IF variant = "basic" THEN "reachable" ELSE "none"])
            /\ UNCHANGED Backend
       \/ OnUnreachable(t)

\* await page.locator('[data-testid="app-layout"], ...').first().waitFor(...)
\* (the scan and helper variants only), then waitForTimeout(2000).
HookWait(t) ==
    /\ At(t, "hook_wait")
    /\ \/ /\ Step(t, [ts[t] EXCEPT !.pc = "hook_modal", !.hook = "reachable"])
          /\ UNCHANGED Backend
       \/ OnUnreachable(t)

\* The popup probe with the click left out.
LicensePopupNoClick(t) ==
    [ts[t] EXCEPT !.okSeen = ts[t].modal, !.pc = "body0"]
\* if (await licensePopup.isVisible(...)) { await licensePopup.click(); ... }
LicensePopup(t) ==
    [ts[t] EXCEPT !.okSeen = ts[t].modal, !.okClicked = ts[t].modal,
                  !.modal = FALSE, !.pc = "body0"]

HookModal(t) ==
    /\ At(t, "hook_modal")
    /\ Step(t, LicensePopup(t))
    /\ UNCHANGED Backend

\* ------------------------------------------------------------ backend
\* The store with one more resource, conforming (exact) or not; a full store
\* rejects the save.
AddRes(store, exact) ==
    IF Count(store) >= MaxRes THEN store
    ELSE IF exact THEN [store EXCEPT !.exact = @ + 1]
    ELSE [store EXCEPT !.other = @ + 1]

\* What a save of the service form leaves in the backend when it is accepted.
SaveService(form) ==
    IF FieldValue(form, "name") = "test-service"
    THEN AddRes(services, FieldValue(form, "url") = "http://example.com:80")
    ELSE services

\* What a save of the route form leaves in the backend when it is accepted.
SaveRoute(r) ==
    IF r.view = "routeCreate" /\ FieldValue(r.form, "name") = "test-route"
    THEN AddRes(routes, /\ FieldValue(r.form, "path") = "/test-path"
                        /\ (r.proto \/ FieldValue(r.form, "protocol") = "http")
                        /\ r.bound)
    ELSE routes

\* A list assertion that always passes.
ListAssertionSkipped(v, n) == TRUE
\* expect(locator).toBeVisible() on the list view holding n matching entries:
\* getByRole(...) is strict (exactly one match), getByTestId(...).first() is not.
ListAssertion(v, n) == IF v = "helper" THEN n >= 1 ELSE n = 1

\* ------------------------------------------------------ createService
\* ts["A"].cs is the call's own record of what createService has done so far,
\* one entry per completed or raised operation; it goes with the call's frame
\* when the caller moves on.
\* try { await page.goto('/default/services/create'); } catch (e) { ... }
CsGoto ==
    /\ At("A", "body0")
    /\ \/ \E f \in ServicePages :
            Step("A", [ts["A"] EXCEPT !.body = TRUE, !.view = "serviceCreate",
                                      !.form = f, !.cs = Append(@, "goto"),
                                      !.pc = "cs_idle"])
       \/ Step("A", [ts["A"] EXCEPT !.body = TRUE, !.cs = Append(@, "gotoRaised"),
                                    !.pc = "cs_fallback"])
    /\ UNCHANGED Backend

\* await page.getByTestId('new-gateway-service').click();
CsFallback ==
    /\ At("A", "cs_fallback")
    /\ \/ \E f \in ServicePages :
            Step("A", [ts["A"] EXCEPT !.view = "serviceCreate", !.form = f,
                                      !.cs = Append(@, "click"), !.pc = "cs_idle"])
       \/ End("A", [ts["A"] EXCEPT !.cs = Append(@, "clickRaised")], "failed")
    /\ UNCHANGED Backend

\* The wait left out: the fills start at once.
CsIdleSkipped ==
    /\ At("A", "cs_idle")
    /\ Step("A", [ts["A"] EXCEPT !.pc = "cs_fill_name"])
    /\ UNCHANGED Backend

\* await page.waitForLoadState('networkidle'): the network goes quiet, or the
\* wait times out and raises.
CsIdle ==
    /\ At("A", "cs_idle")
    /\ \/ Step("A", [ts["A"] EXCEPT !.cs = Append(@, "idle"), !.pc = "cs_fill_name"])
       \/ End("A", [ts["A"] EXCEPT !.cs = Append(@, "idleTimeout")], "failed")
    /\ UNCHANGED Backend

\* await fillFormField(page, 'input[name*="name" i]', name);
CsFillName ==
    /\ At("A", "cs_fill_name")
    /\ Step("A", [ts["A"] EXCEPT
            !.form = fillFormField(@, NameAttrSel, "test-service"),
            !.cs = Append(@, "fillName"),
            !.pc = "cs_fill_url"])
    /\ UNCHANGED Backend

\* await fillFormField(page, 'input[name*="url" i]', url);
CsFillUrl ==
    /\ At("A", "cs_fill_url")
    /\ Step("A", [ts["A"] EXCEPT
            !.form = fillFormField(@, UrlAttrSel, "http://example.com:80"),
            !.cs = Append(@, "fillUrl"),
            !.pc = "cs_save"])
    /\ UNCHANGED Backend

\* await page.getByRole('button', { name: /save/i }).click(): the control is
\* there and the backend accepts or drops the save, or the click raises.
CsSave ==
    /\ At("A", "cs_save")
    /\ \/ /\ Step("A", [Closed(ts["A"]) EXCEPT !.saveClicks = @ + 1,
                                              !.cs = Append(@, "save"),
                                              !.pc = "cs_idle2"])
          /\ services' \in {services, SaveService(ts["A"].form)}
          /\ UNCHANGED routes
       \/ /\ End("A", [ts["A"] EXCEPT !.cs = Append(@, "saveRaised")], "failed")
          /\ UNCHANGED Backend

\* await page.waitForLoadState('networkidle');
CsIdle2 ==
    /\ At("A", "cs_idle2")
    /\ \/ Step("A", [ts["A"] EXCEPT !.cs = Append(@, "idle"), !.pc = "cs_settle"])
       \/ End("A", [ts["A"] EXCEPT !.cs = Append(@, "idleTimeout")], "failed")
    /\ UNCHANGED Backend

\* await page.waitForTimeout(5000); and createService returns.
CsSettle ==
    /\ At("A", "cs_settle")
    /\ Step("A", [ts["A"] EXCEPT !.cs = Append(@, "settle"), !.pc = "a_list"])
    /\ UNCHANGED Backend

\* ------------------------------------------------------- scenario A
\* await page.goto('/default/services'); await page.waitForLoadState(...)
AList ==
    /\ At("A", "a_list")
    /\ \/ Step("A", [ts["A"] EXCEPT !.view = "servicesList", !.form = <<>>,
                                  !.cs = <<>>, !.pc = "a_expect"])
       \/ End("A", [ts["A"] EXCEPT !.cs = <<>>], "failed")
    /\ UNCHANGED Backend

\* await expect(<test-service entry>).toBeVisible();
AExpect ==
    /\ At("A", "a_expect")
    /\ End("A", ts["A"],
           IF ListAssertion(variant, Count(services)) THEN "passed" ELSE "failed")
    /\ UNCHANGED Backend

\* ------------------------------------- scenario B, scan and basic variants
InlineRoute == variant \in {"scan", "basic"}

\* await page.goto('/default/services', ...); await page.waitForLoadState(...)
BServices ==
    /\ At("B", "body0") /\ InlineRoute
    /\ \/ Step("B", [ts["B"] EXCEPT !.body = TRUE, !.view = "servicesList",
                        !.pc = IF variant = "scan" THEN "b_wait" ELSE "b_click"])
       \/ End("B", [ts["B"] EXCEPT !.body = TRUE], "failed")
    /\ UNCHANGED Backend

\* await page.getByRole('button', { name: 'test-service' }).first().waitFor(...)
BWaitService ==
    /\ At("B", "b_wait")
    /\ IF Count(services) >= 1
       THEN Step("B", [ts["B"] EXCEPT !.pc = "b_click"])
       ELSE End("B", ts["B"], "failed")
    /\ UNCHANGED Backend

\* await page.getByRole('button', { name: 'test-service' }).click(): strict.
BOpenService ==
    /\ At("B", "b_click")
    /\ IF Count(services) = 1
       THEN Step("B", [ts["B"] EXCEPT !.view = "serviceDetail", !.pc = "b_link"])
       ELSE End("B", ts["B"], "failed")
    /\ UNCHANGED Backend

\* scan: try { if (await routesLink.isVisible(...)) { click; routesNavSuccess = true } }
\*       catch (e) { routesNavSuccess = false }
BRoutesLinkScan ==
    /\ At("B", "b_link") /\ variant = "scan"
    /\ \/ \E f \in ListPages :
            Step("B", [ts["B"] EXCEPT !.view = "routesList", !.form = f,
                          !.routesNavSuccess = TRUE, !.pc = "b_create"])
       \/ Step("B", [ts["B"] EXCEPT !.routesNavSuccess = FALSE, !.pc = "b_direct"])
    /\ UNCHANGED Backend

\* basic: if (await routesLink.isVisible()) { click } else { goto create }
BRoutesLinkBasic ==
    /\ At("B", "b_link") /\ variant = "basic"
    /\ \/ \E f \in ListPages :
            Step("B", [ts["B"] EXCEPT !.view = "routesList", !.form = f,
                                      !.pc = "b_populate"])
       \/ \E f \in RoutePages :
            Step("B", [ts["B"] EXCEPT !.view = "routeCreate", !.form = f,
                                      !.pc = "b_populate"])
       \/ End("B", ts["B"], "failed")
    /\ UNCHANGED Backend

\* await page.goto('/default/routes/create', ...) (both places of the scan
\* variant): the route form, not bound to any service, or a raise.
BDirect ==
    /\ At("B", "b_direct")
    /\ \/ \E f \in RoutePages :
            Step("B", [ts["B"] EXCEPT !.view = "routeCreate", !.form = f,
                                      !.pc = "b_populate"])
       \/ End("B", ts["B"], "failed")
    /\ UNCHANGED Backend

\* try { if (await createRouteBtn.isVisible(...)) { click } } catch (e) { goto create }
\* Visible: the form opens, pre-bound to the service or not. Not visible:
\* nothing happens. A raise: direct navigation.
BCreateButton ==
    /\ At("B", "b_create")
    /\ \/ \E f \in RoutePages, b \in BOOLEAN :
            Step("B", [ts["B"] EXCEPT !.view = "routeCreate", !.form = f,
                                      !.bound = b, !.pc = "b_populate"])
       \/ Step("B", [ts["B"] EXCEPT !.pc = "b_populate"])
       \/ Step("B", [ts["B"] EXCEPT !.pc = "b_direct"])
    /\ UNCHANGED Backend

\* The field population of the inline workflows.
BPopulate ==
    /\ At("B", "b_populate")
    /\ IF variant = "scan"
       THEN Step("B", [ts["B"] EXCEPT !.form = PopulateScan(@), !.pc = "b_proto"])
       ELSE Step("B", [ts["B"] EXCEPT !.form = PopulateBasic(@), !.pc = "b_submit"])
    /\ UNCHANGED Backend

\* The five candidate selectors, in order.
ProtocolSelectors ==
    << "select[name*=protocol]", "[role=combobox][aria-label*=protocol]",
       "input[name*=protocol]", "div[class*=protocol] select",
       "div[class*=protocol] input" >>

\* for (const selector of protocolSelectors) { try { ... break; } catch (e) { } }
\* hit: the first selector that resolves to a visible element (0: none);
\* ok: whether the selection took (its failures are ignored).
BProtocol ==
    /\ At("B", "b_proto")
    /\ \E hit \in 0..Len(ProtocolSelectors), ok \in BOOLEAN :
          Step("B", [ts["B"] EXCEPT !.proto = (hit # 0 /\ ok), !.pc = "b_submit"])
    /\ UNCHANGED Backend

\* One click on a save control: counted, and the backend takes the route or not.
ClickSave(r) == [r EXCEPT !.saveClicks = @ + 1, !.submitted = TRUE]

\* scan: try { if (await saveBtn.isVisible(...)) { click; waits } } catch (e) { ... }
BSubmitScan ==
    /\ At("B", "b_submit") /\ variant = "scan"
    /\ \/ \* visible, clicked, the waits return
          /\ Step("B", [Closed(ClickSave(ts["B"])) EXCEPT !.roleProbe = "visible", !.pc = "b_verify"])
          /\ routes' \in {routes, SaveRoute(ts["B"])}
          /\ UNCHANGED services
       \/ \* reported not visible: the if is skipped, nothing raises
          /\ Step("B", [Closed(ts["B"]) EXCEPT !.roleProbe = "hidden", !.pc = "b_verify"])
          /\ UNCHANGED Backend
       \/ \* the probe or the click raises
          /\ Step("B", [ts["B"] EXCEPT !.roleProbe = "raised", !.pc = "b_submit2"])
          /\ UNCHANGED Backend
       \/ \* clicked, then a wait raises
          /\ Step("B", [ClickSave(ts["B"]) EXCEPT !.roleProbe = "visible", !.pc = "b_submit2"])
          /\ routes' \in {routes, SaveRoute(ts["B"])}
          /\ UNCHANGED services

\* catch (e) { const btn = page.locator('button').filter(...).first();
\*             try { if (await btn.isVisible(...)) { click; waits } } catch (e2) { } }
BSubmitFallback ==
    /\ At("B", "b_submit2")
    /\ \/ /\ Step("B", [Closed(ClickSave(ts["B"])) EXCEPT !.secondTried = TRUE, !.pc = "b_verify"])
          /\ routes' \in {routes, SaveRoute(ts["B"])}
          /\ UNCHANGED services
       \/ /\ Step("B", [Closed(ts["B"]) EXCEPT !.secondTried = TRUE, !.pc = "b_verify"])
          /\ UNCHANGED Backend

\* basic: if (await saveBtn.isVisible()) { click; waitForLoadState }
BSubmitBasic ==
    /\ At("B", "b_submit") /\ variant = "basic"
    /\ \/ /\ Step("B", [Closed(ClickSave(ts["B"])) EXCEPT !.roleProbe = "visible", !.pc = "b_verify"])
          /\ routes' \in {routes, SaveRoute(ts["B"])}
          /\ UNCHANGED services
       \/ /\ Step("B", [Closed(ts["B"]) EXCEPT !.roleProbe = "hidden", !.pc = "b_verify"])
          /\ UNCHANGED Backend

\* ------------------------------------------------------- createRoute
\* locator.fill(value) on a strict locator: it needs exactly one match, and
\* that one visible; otherwise it raises after its timeout.
CanFill(form, sel) ==
    /\ Cardinality({ i \in 1..Len(form) : Matches(form[i], sel) }) = 1
    /\ form[First(form, sel)].visible

\* await page.goto('/default/routes/create'); waits
CrGoto ==
    /\ At("B", "body0") /\ variant = "helper"
    /\ \/ \E f \in RoutePages :
            Step("B", [ts["B"] EXCEPT !.body = TRUE, !.view = "routeCreate",
                                      !.form = f, !.pc = "cr_name"])
       \/ End("B", [ts["B"] EXCEPT !.body = TRUE], "failed")
    /\ UNCHANGED Backend

\* await page.getByTestId('route-form-name').fill(name);
CrName ==
    /\ At("B", "cr_name")
    /\ IF CanFill(ts["B"].form, TidName)
       THEN Step("B", [ts["B"] EXCEPT !.form = fillFormField(@, TidName, "test-route"),
                                      !.pc = "cr_picker"])
       ELSE End("B", ts["B"], "failed")
    /\ UNCHANGED Backend

\* await page.getByTestId("route-form-service-id").click(): the picker opens,
\* or it is not there and the click raises.
CrPicker ==
    /\ At("B", "cr_picker")
    /\ \/ Step("B", [ts["B"] EXCEPT !.pc = "cr_pick"])
       \/ End("B", ts["B"], "failed")
    /\ UNCHANGED Backend

\* The option click left out.
PickServiceSkipped(r) == [r EXCEPT !.pc = "cr_path"]
\* The service is selected in the picker.
PickService(r) == [r EXCEPT !.bound = TRUE, !.picked = TRUE, !.pc = "cr_path"]

\* await page.getByText("test-service").click(): strict, one option per service.
CrPick ==
    /\ At("B", "cr_pick")
    /\ IF Count(services) = 1
       THEN Step("B", PickService(ts["B"]))
       ELSE End("B", ts["B"], "failed")
    /\ UNCHANGED Backend

\* await page.getByTestId('route-form-paths-input-1').fill(path);
CrPath ==
    /\ At("B", "cr_path")
    /\ IF CanFill(ts["B"].form, TidPath)
       THEN Step("B", [ts["B"] EXCEPT !.form = fillFormField(@, TidPath, "/test-path"),
                                      !.pc = "cr_save"])
       ELSE End("B", ts["B"], "failed")
    /\ UNCHANGED Backend

\* const saveBtn = page.getByRole('button', { name: /save/i }); await saveBtn.click();
CrSave ==
    /\ At("B", "cr_save")
    /\ \/ /\ Step("B", [Closed(ClickSave(ts["B"])) EXCEPT !.roleProbe = "visible", !.pc = "b_verify"])
          /\ routes' \in {routes, SaveRoute(ts["B"])}
          /\ UNCHANGED services
       \/ /\ End("B", ts["B"], "failed")
          /\ UNCHANGED Backend

\* ------------------------------------------------ scenario B, the check
\* await page.goto('/default/routes', ...); waits
BList ==
    /\ At("B", "b_verify")
    /\ \/ Step("B", [ts["B"] EXCEPT !.view = "routesList", !.form = <<>>,
                                  !.pc = "b_expect"])
       \/ End("B", ts["B"], "failed")
    /\ UNCHANGED Backend

\* await expect(<test-route entry>).toBeVisible(...);
BExpect ==
    /\ At("B", "b_expect")
    /\ End("B", ts["B"],
           IF ListAssertion(variant, Count(routes)) THEN "passed" ELSE "failed")
    /\ UNCHANGED Backend

\* ------------------------------------------------------ specification
Hook == \E t \in Tests : HookGoto(t) \/ HookWait(t) \/ HookModal(t)
ScenarioA ==
    \/ CsGoto \/ CsFallback \/ CsIdle \/ CsFillName \/ CsFillUrl \/ CsSave
    \/ CsIdle2 \/ CsSettle \/ AList \/ AExpect
ScenarioB ==
    \/ BServices \/ BWaitService \/ BOpenService \/ BRoutesLinkScan
    \/ BRoutesLinkBasic \/ BDirect \/ BCreateButton \/ BPopulate \/ BProtocol
    \/ BSubmitScan \/ BSubmitFallback \/ BSubmitBasic
    \/ CrGoto \/ CrName \/ CrPicker \/ CrPick \/ CrPath \/ CrSave
    \/ BList \/ BExpect
Runner == (\E t \in Tests : StartTest(t)) \/ RetryGroup \/ FinishRun

Next == Runner \/ Hook \/ ScenarioA \/ ScenarioB
Spec == Init /\ [][Next]_vars

\* ------------------------------ fillFormField over every bounded form
FillAttrs == {"", "name", "hostname", "url"}
FillInputs ==
    { Input("any", n, p, "", "", vis) :
        n \in FillAttrs, p \in {"", "Enter a unique name"}, vis \in BOOLEAN }
RECURSIVE FormsUpTo(_)
FormsUpTo(n) ==
    IF n = 0 THEN { <<>> }
    ELSE LET shorter == FormsUpTo(n - 1)
         IN  shorter \cup { Append(f, i) : f \in { g \in shorter : Len(g) = n - 1 },
                                            i \in FillInputs }
FillSelectors == { NameAttrSel, UrlAttrSel, NamePhSel, NameFallbackSel }

InitFill ==
    /\ variant = "scan" /\ fullyParallel = FALSE /\ ci = FALSE
    /\ services = NoRes /\ routes = NoRes
    /\ attempt = 0 /\ results = [t \in Tests |-> {}]
    /\ runDone = TRUE /\ runResult = "none"
    /\ ts = [t \in Tests |-> Fresh]
    /\ fillIn \in FormsUpTo(MaxInputs)
    /\ fillSel \in FillSelectors
    /\ fillOut = <<>>
    /\ fillPc = "ready"
    /\ pop = <<>>

\* One call fillFormField(page, selector, 'test-service') on the drawn form.
FillCall ==
    /\ fillPc = "ready"
    /\ fillOut' = fillFormField(fillIn, fillSel, "test-service")
    /\ fillPc' = "called"
    /\ UNCHANGED <<config, services, routes, attempt, results, runDone, runResult,
                   ts, fillIn, fillSel, pop>>

SpecFill == InitFill /\ [][FillCall]_vars

\* ---------------- the route field population over every bounded form
\* createRoute: the two test-id fills. Each is a strict locator.fill(), which
\* raises when its field is missing, duplicated or not visible; the first
\* raise ends createRoute.
PopulateHelper(form) ==
    LET nameOk == CanFill(form, TidName)
        f1 == IF nameOk THEN fillFormField(form, TidName, "test-route") ELSE form
        pathOk == nameOk /\ CanFill(f1, TidPath)
        f2 == IF pathOk THEN fillFormField(f1, TidPath, "/test-path") ELSE f1
    IN  [form |-> f2, scanned |-> form,
         namedFilled |-> FALSE, pathFilled |-> FALSE,
         nameFallback |-> FALSE, pathFallback |-> FALSE,
         nameAt |-> IF nameOk THEN {First(form, TidName)} ELSE {},
         pathAt |-> IF pathOk THEN {First(f1, TidPath)} ELSE {},
         raised |-> ~pathOk]

\* The text inputs a route form may hold, each visible or not.
PopInputs ==
    UNION { { rNameBare(v), rNameAttr(v), rPath(v), rPathPh(v), rTags(v),
              rProto(v), rPathname(v), lFilter(v) } : v \in BOOLEAN }
RECURSIVE PopFormsUpTo(_)
PopFormsUpTo(n) ==
    IF n = 0 THEN { <<>> }
    ELSE LET shorter == PopFormsUpTo(n - 1)
         IN  shorter \cup { Append(f, i) : f \in { g \in shorter : Len(g) = n - 1 },
                                            i \in PopInputs }

InitPop ==
    /\ variant \in {"scan", "helper"} /\ fullyParallel = FALSE /\ ci = FALSE
    /\ services = NoRes /\ routes = NoRes
    /\ attempt = 0 /\ results = [t \in Tests |-> {}]
    /\ runDone = TRUE /\ runResult = "none"
    /\ ts = [t \in Tests |-> Fresh]
    /\ fillIn \in PopFormsUpTo(MaxInputs)
    /\ fillSel = {} /\ fillOut = <<>>
    /\ fillPc = "popReady"
    /\ pop = <<>>

\* The inline scan workflow's population step on the drawn form.
PopScanCall ==
    /\ fillPc = "popReady" /\ variant = "scan"
    /\ pop' = PopulateScanTrace(fillIn)
    /\ fillPc' = "populated"
    /\ UNCHANGED <<config, services, routes, attempt, results, runDone, runResult,
                   ts, fillIn, fillSel, fillOut>>

\* createRoute's fills on the drawn form.
PopHelperCall ==
    /\ fillPc = "popReady" /\ variant = "helper"
    /\ pop' = PopulateHelper(fillIn)
    /\ fillPc' = "populated"
    /\ UNCHANGED <<config, services, routes, attempt, results, runDone, runResult,
                   ts, fillIn, fillSel, fillOut>>

SpecPop == InitPop /\ [][PopScanCall \/ PopHelperCall]_vars

\* ============================================================ claims
One == [exact |-> 1, other |-> 0]
BodyRan(t) == ts[t].body
Finished(t) == ts[t].status \in {"passed", "failed"}

\* C1 (as stated): the route scenario's body is attempted only after the
\* service scenario has passed in the same attempt, with 'test-service'
\* present in the backend, and the two scenarios never run at the same time.
C1_RouteOnlyAfterServicePassed ==
    /\ BodyRan("B") => (ts["A"].status = "passed" /\ Count(services) >= 1)
    /\ ~(ts["A"].status = "running" /\ ts["B"].status = "running")

\* C2: when the hook finds the target unreachable the scenario is skipped,
\* not failed; no body step, no popup probe and no click has run on its page;
\* and a run in which both scenarios were only ever skipped exits cleanly.
C2_UnreachableSkips ==
    /\ \A t \in Tests :
          ts[t].hook = "unreachable" =>
             /\ ts[t].status = "skipped"
             /\ ~ts[t].body /\ ~ts[t].okSeen /\ ~ts[t].okClicked
             /\ ts[t].saveClicks = 0
             /\ ts[t].view \in {"blank", "root"}
    /\ (runDone /\ \A t \in Tests : ts[t].hook = "unreachable" /\ results[t] = {"skipped"})
          => runResult = "passed"
C2_Witness ==
    /\ runDone /\ runResult = "passed"
    /\ \A t \in Tests : ts[t].hook = "unreachable" /\ ts[t].status = "skipped"

\* C3 (as stated): once scenario A has finished on a reachable target, exactly
\* one 'test-service' with upstream http://example.com:80 is in the list.
C3_ExactlyOneService ==
    (ts["A"].hook = "reachable" /\ Finished("A")) => services = One
\* C3 (amended): when scenario A passes, a 'test-service' entry is in the
\* services list (exactly one where the assertion uses the strict role
\* locator); nothing is said of its upstream, nor of a scenario A that fails.
C3_PassedServiceListed ==
    ts["A"].status = "passed" =>
        /\ Count(services) >= 1
        /\ variant # "helper" => Count(services) = 1
C3_Witness ==
    /\ ts["A"].status = "passed" /\ ts["A"].saveClicks = 1
    /\ services = [exact |-> 0, other |-> 1]

C5_PopupDismissedBeforeBody ==
    \A t \in Tests :
       (ts[t].hook = "reachable" /\ ts[t].pc # "hook_modal") =>
          /\ ts[t].okClicked = ts[t].okSeen
          /\ ~ts[t].modal
          /\ ts[t].status # "skipped"
          /\ ts[t].status = "failed" => ts[t].body
C5_Witness ==
    /\ ts["A"].body /\ ts["A"].okSeen /\ ts["A"].okClicked
    /\ ts["B"].body /\ ~ts["B"].okSeen /\ ~ts["B"].okClicked

\* C6: fillFormField changes the first matching input, and only when that
\* input is visible, setting its value to the one given; every other input,
\* and the whole form when nothing matches or the first match is hidden, is
\* left as it was.
FirstMatchIs(i) ==
    /\ i \in 1..Len(fillIn)
    /\ Matches(fillIn[i], fillSel)
    /\ \A j \in 1..(i - 1) : ~Matches(fillIn[j], fillSel)
C6_FillContract ==
    fillPc = "called" =>
       /\ Len(fillOut) = Len(fillIn)
       /\ \A i \in 1..Len(fillIn) :
             IF FirstMatchIs(i) /\ fillIn[i].visible
             THEN fillOut[i] = [fillIn[i] EXCEPT !.value = "test-service"]
             ELSE fillOut[i] = fillIn[i]
C6_Witness ==
    /\ fillPc = "called" /\ fillOut = fillIn /\ Len(fillIn) = 2
    /\ FirstMatchIs(1) /\ ~fillIn[1].visible
    /\ Matches(fillIn[2], fillSel) /\ fillIn[2].visible

\* C7 (as stated, for runs in which the hook never skipped): the run succeeds
\* only if every scenario passed, and a failure of a scenario in any attempt
\* fails the run.
C7_AnyFailureFailsRun ==
    (runDone /\ \A t \in Tests : "skipped" \notin results[t]) =>
       /\ runResult = "passed" => \A t \in Tests : ts[t].status = "passed"
       /\ (\E t \in Tests : "failed" \in results[t]) => runResult = "failed"
\* C7 (amended): a scenario that failed in every attempt fails the run; with
\* no retries (local) any failure fails the run and a passed run has every
\* scenario passed or skipped; a run without failures passes; with retries a
\* failure followed by a passing retry leaves the run passed.
C7_RunOutcome ==
    runDone =>
       /\ (\E t \in Tests : results[t] = {"failed"}) => runResult = "failed"
       /\ (\A t \in Tests : "failed" \notin results[t]) => runResult = "passed"
       /\ ~ci => /\ (\E t \in Tests : "failed" \in results[t]) => runResult = "failed"
                 /\ runResult = "passed" =>
                       \A t \in Tests : ts[t].status \in {"passed", "skipped"}
C7_Witness ==
    /\ runDone /\ ci /\ runResult = "passed"
    /\ results["A"] = {"passed"} /\ results["B"] = {"failed", "passed"}

\* C8 (as stated): a scenario in which the save control of the creation
\* workflow was never found and clicked is reported failed, never passed
\* (here with scenario A passed, so that B ran on the service A left).
C8_NoPassWithoutSave ==
    ts["A"].status = "passed" =>
        \A t \in Tests : ts[t].status = "passed" => ts[t].saveClicks >= 1

\* C9 (as stated): in the scan variant's submit step, after a passed scenario
\* A, once the role-based control was not available (reported not visible, or
\* the probe or click raised) the text-filter locator has been tried before
\* the workflow moves on to the list check, and the control is clicked at most
\* once.
AfterSubmit == ts["B"].pc \in {"b_verify", "b_expect", "done"}
C9_SecondLocatorTried ==
    (variant = "scan" /\ ts["A"].status = "passed" /\ AfterSubmit
        /\ ts["B"].roleProbe # "none") =>
       /\ ts["B"].roleProbe \in {"hidden", "raised"} => ts["B"].secondTried
       /\ ts["B"].saveClicks <= 1

\* C10 (as stated): after a passed scenario A, the inline workflows populate
\* the fields only on the route-creation view, never on the service-detail or
\* routes-list view.
C10_PopulateOnCreateView ==
    (ts["A"].status = "passed" /\ ts["B"].pc = "b_populate")
        => ts["B"].view = "routeCreate"

\* ------------------------------------------------------------- C11
\* The inputs of the drawn form the scan's two tests select.
VisibleUnlabeled ==
    { i \in 1..Len(fillIn) :
        fillIn[i].visible /\ fillIn[i].name = "" /\ fillIn[i].placeholder = "" }
VisiblePathLike ==
    { i \in 1..Len(fillIn) :
        /\ fillIn[i].visible
        /\ \/ <<fillIn[i].name, "path">> \in Contains
           \/ <<fillIn[i].placeholder, "path">> \in Contains }
Least(S) == IF S = {} THEN 0 ELSE CHOOSE i \in S : \A j \in S : i <= j
\* Exactly one input carries the test id, and it is visible.
OneVisible(tid) ==
    /\ Cardinality({ i \in 1..Len(fillIn) : fillIn[i].testid = tid }) = 1
    /\ \A i \in 1..Len(fillIn) : fillIn[i].testid = tid => fillIn[i].visible

\* What the claim says of the scan and its fallbacks: each value is written
\* to at most one input; after the loop the first visible unlabeled input
\* holds 'test-route', the first visible input whose name or placeholder
\* contains 'path' holds '/test-path', and every other input is untouched;
\* a field's fallback locator is used exactly when the loop did not fill it.
ScanAsClaimed ==
    /\ Len(pop.form) = Len(fillIn)
    /\ Cardinality(pop.nameAt) <= 1
    /\ Cardinality(pop.pathAt) <= 1
    /\ variant = "scan" =>
          /\ \A i \in 1..Len(fillIn) :
                pop.scanned[i] =
                    [fillIn[i] EXCEPT !.value =
                        IF i = Least(VisibleUnlabeled) THEN "test-route"
                        ELSE IF i = Least(VisiblePathLike) THEN "/test-path"
                        ELSE ""]
          /\ pop.nameFallback <=> VisibleUnlabeled = {}
          /\ pop.pathFallback <=> VisiblePathLike = {}
          /\ \A i \in 1..Len(fillIn) :
                pop.form[i] # pop.scanned[i] =>
                    \/ pop.nameFallback /\ i = First(fillIn, NameFallbackSel)
                    \/ pop.pathFallback /\ i = First(fillIn, PathFallbackSel)

\* C11 (as stated): in the route workflow's field population, over any list
\* of text inputs, each value is written to at most one input, the scan gives
\* the name to the first visible unlabeled input and the path to the first
\* visible input whose name or placeholder contains 'path', a fallback
\* locator is used exactly when the scan did not fill its field, and a
\* missing or invisible field raises no error at any layer.
C11_NoLayerRaises ==
    fillPc = "populated" => (ScanAsClaimed /\ ~pop.raised)

\* C11 (amended): the same, except that only the scan and the fallback
\* locators never raise; createRoute's test-id fills raise exactly when the
\* name or the path field is not a single visible input.
C11_ScanAndFallback ==
    fillPc = "populated" =>
       /\ ScanAsClaimed
       /\ variant = "scan" => ~pop.raised
       /\ variant = "helper" =>
             (pop.raised <=> ~(OneVisible("route-form-name")
                               /\ OneVisible("route-form-paths-input-1")))
\* The scan passed over an invisible unlabeled input, gave the name to the
\* next unlabeled one and the path to the input after it.
C11_Witness ==
    /\ fillPc = "populated" /\ variant = "scan" /\ Len(fillIn) = 3
    /\ ~fillIn[1].visible /\ fillIn[1].name = "" /\ fillIn[1].placeholder = ""
    /\ pop.form[1].value = ""
    /\ pop.form[2].value = "test-route" /\ pop.form[3].value = "/test-path"
    /\ ~pop.nameFallback /\ ~pop.pathFallback

\* ------------------------------------------------------------- C12
\* The places of an operation in createService's record.
CsAt(e) == { i \in 1..Len(ts["A"].cs) : ts["A"].cs[i] = e }

\* C12: createService reaches the creation view by direct navigation and,
\* only when that navigation raises, by clicking 'new-gateway-service'
\* instead, the navigation error not being propagated; no field is populated
\* before a network-quiescence wait has completed; the save control is
\* clicked at most once, after both fill attempts, and exactly once when the
\* call returns; after the click come the quiescence wait and then the settle
\* delay, and nothing after the click raises for want of an effect of the
\* save (only a wait can still time out).
C12_CreateServiceOrder ==
    LET L == ts["A"].cs
    IN  /\ L # <<>> => L[1] \in {"goto", "gotoRaised"}
        /\ \A i \in CsAt("click") \cup CsAt("clickRaised") :
              i = 2 /\ L[1] = "gotoRaised"
        /\ L = <<"gotoRaised">> => Running("A") /\ ts["A"].view # "serviceCreate"
        /\ Len(L) >= 2 /\ L[1] = "gotoRaised" => L[2] \in {"click", "clickRaised"}
        /\ \A i \in CsAt("fillName") \cup CsAt("fillUrl") :
              /\ \E j \in CsAt("idle") : j < i
              /\ \E j \in CsAt("goto") \cup CsAt("click") : j < i
        /\ Cardinality(CsAt("save")) <= 1
        /\ ts["A"].saveClicks <= 1
        /\ \A i \in CsAt("save") :
              /\ \E j \in CsAt("fillName") : j < i
              /\ \E j \in CsAt("fillUrl") : j < i
              /\ \A j \in (i + 1)..Len(L) : L[j] \in {"idle", "settle", "idleTimeout"}
        /\ \A i \in CsAt("settle") : i >= 3 /\ L[i - 1] = "idle" /\ L[i - 2] = "save"
        /\ At("A", "a_list") =>
              /\ Cardinality(CsAt("save")) = 1
              /\ ts["A"].saveClicks = 1
              /\ L[Len(L)] = "settle"
\* createService has returned by the fallback path although the save left
\* the backend without a service.
C12_Witness ==
    /\ At("A", "a_list")
    /\ ts["A"].cs = <<"gotoRaised", "click", "idle", "fillName", "fillUrl",
                      "save", "idle", "settle">>
    /\ services = NoRes

====
